---- MODULE Spec2Model ----
(***************************************************************************)
(* A model of bandwidth_proxy.py: one accepted client connection handled   *)
(* by handle_client / handle_tunnel, and the two token_bucket_copy relay   *)
(* tasks it starts.                                                        *)
(*                                                                         *)
(* Representation of the real-valued quantities of the code:               *)
(*   - the clock (time.monotonic) counts ticks of 10 ms, the length of the *)
(*     back-off sleep, so one second is TicksPerSec ticks;                 *)
(*   - rate_kbps is held as a whole number of 1/RateDen kbps;              *)
(*   - tokens are held as a whole number of 1/TokenDen byte.               *)
(* With these units every value the code computes is a whole number and    *)
(* the arithmetic below is exact.                                          *)
(***************************************************************************)
EXTENDS Integers, Sequences, FiniteSets, TLC

VARIABLES
    up_kbps,      \* configured upload limit   (handle_client parameter)
    down_kbps,    \* configured download limit (handle_client parameter)
    request,      \* what the client sends on the accepted connection
    hpc,          \* position of the handler coroutine
    path,         \* "none", "tunnel" (CONNECT) or "forward" (plain HTTP)
    headers,      \* the captured header block: the lines read so far
    clientOut,    \* status lines the handler wrote to the client writer
    targetOut,    \* header blocks the handler wrote to the target writer
    attempts,     \* calls of asyncio.open_connection
    conn,         \* the client and target sockets: "none", "open", "lost"
                  \* (the peer reset it, the transport is gone) or "closed"
    avail,        \* bytes buffered in the source reader of each relay
    eof,          \* the source peer of each relay has closed its write side
    sends,        \* number of segments each peer has sent during relaying
    relay,        \* the state of each token_bucket_copy task
    now,          \* time.monotonic(), in ticks
    advances,     \* number of times the clock has advanced
    firstEnd,     \* which relay task ended first, how, and when
    server,       \* the state of start_server
    dest,         \* the (host, port) the handler parsed for open_connection
    gui           \* throttleW.ThrottleApp and the proxies it launched

vars == <<up_kbps, down_kbps, request, hpc, path, headers, clientOut,
          targetOut, attempts, conn, avail, eof, sends, relay,
          now, advances, firstEnd, server, dest, gui>>

(***************************************************************************)
(* Program constants                                                       *)
(***************************************************************************)
KBPS_TO_BPS == 1000

BitsPerByte == 8

max_chunk == 16 * 1024

ReadSize == 8192

\* asyncio.sleep(0.01): the back-off sleep lasts one clock tick
SleepTicks == 1

TicksPerSec == 100 * SleepTicks

\* bytes_per_second is a float: it is counted in units of 1/BpsDen byte per
\* second, so that rates below one byte per second exist
BpsDen == 4

\* rate_kbps is counted in units of 1/RateDen kbps, the smallest unit that
\* converts to a whole number of such units
RateDen == (KBPS_TO_BPS \div BitsPerByte) * BpsDen

\* tokens is a float: it is counted in units of 1/TokenDen byte, the amount
\* the slowest rate adds in one clock tick
TokenDen == BpsDen * TicksPerSec

(***************************************************************************)
(* Bounds of the model.  Spec follows whole sessions with a coarse clock;  *)
(* BucketSpec follows the upload relay of a session whose target stays     *)
(* silent, with a fine clock and large transfers.                          *)
(***************************************************************************)
\* the clock advances at most this many times
MaxAdvances == 1

MaxBucketAdvances == 5

\* segments each peer sends while the relays run
MaxSends == 1

MaxBucketSends == 1

\* the configured limits tried: negative, zero and 0.008 kbps (1 byte/s);
\* under BucketSpec 0.002 kbps (a quarter byte/s), 0.008 kbps and 8 kbps
\* (1000 bytes/s)
Rates == {-1, 0, BpsDen}

BucketRates == {1, BpsDen, 8 * RateDen}

\* sizes of the segments a peer sends
SendSizes == {3}

BucketSendSizes == {3, 9000}

\* amounts by which the clock advances in one step: one second; under
\* BucketSpec also one back-off interval
Jumps == {TicksPerSec}

BucketJumps == {SleepTicks, TicksPerSec}

Dir == {"up", "down"}

Other(d) == IF d = "up" THEN "down" ELSE "up"

Min(a, b) == IF a < b THEN a ELSE b

(***************************************************************************)
(* Text: a string is a sequence of one-character strings                   *)
(***************************************************************************)
LowerLetters == <<"a","b","c","d","e","f","g","h","i","j","k","l","m",
                  "n","o","p","q","r","s","t","u","v","w","x","y","z">>

UpperLetters == <<"A","B","C","D","E","F","G","H","I","J","K","L","M",
                  "N","O","P","Q","R","S","T","U","V","W","X","Y","Z">>

\* str.upper() on one character
UpperChar(c) ==
    IF \E i \in 1..26 : LowerLetters[i] = c
    THEN UpperLetters[CHOOSE i \in 1..26 : LowerLetters[i] = c]
    ELSE c

\* str.lower() on one character
LowerChar(c) ==
    IF \E i \in 1..26 : UpperLetters[i] = c
    THEN LowerLetters[CHOOSE i \in 1..26 : UpperLetters[i] = c]
    ELSE c

Upper(s) == [i \in 1..Len(s) |-> UpperChar(s[i])]

Lower(s) == [i \in 1..Len(s) |-> LowerChar(s[i])]

StartsWith(s, p) == Len(s) >= Len(p) /\ SubSeq(s, 1, Len(p)) = p

\* str.split() with no argument: the maximal runs of non-blank characters
RECURSIVE SplitWS(_, _, _)
SplitWS(s, cur, acc) ==
    IF s = <<>>
    THEN IF cur = <<>> THEN acc ELSE Append(acc, cur)
    ELSE IF Head(s) = " "
         THEN SplitWS(Tail(s), <<>>, IF cur = <<>> THEN acc ELSE Append(acc, cur))
         ELSE SplitWS(Tail(s), Append(cur, Head(s)), acc)

\* str.strip()
RECURSIVE LStrip(_)
LStrip(s) == IF s # <<>> /\ Head(s) = " " THEN LStrip(Tail(s)) ELSE s

RECURSIVE RStrip(_)
RStrip(s) ==
    IF s # <<>> /\ s[Len(s)] = " " THEN RStrip(SubSeq(s, 1, Len(s) - 1)) ELSE s

Strip(s) == RStrip(LStrip(s))

\* the text after the first ':' of s, which contains one
RECURSIVE AfterColon(_)
AfterColon(s) == IF Head(s) = ":" THEN Tail(s) ELSE AfterColon(Tail(s))

CONNECT == <<"C","O","N","N","E","C","T">>

HostPrefix == <<"h","o","s","t",":">>

(***************************************************************************)
(* The requests tried                                                      *)
(***************************************************************************)
Req(readable, line, hdrs, blank, body) ==
    [readable |-> readable, line |-> line, hdrs |-> hdrs, blank |-> blank,
     body |-> body]

\* "CONNECT h:8"
LineConnect == <<"C","O","N","N","E","C","T"," ","h",":","8">>

\* "connect h"
LineConnectLower == <<"c","o","n","n","e","c","t"," ","h">>

\* "GET /"
LineGet == <<"G","E","T"," ","/">>

\* "GET": one token only
LineShort == <<"G","E","T">>

\* "Host: h:8"
HdrHost == <<"H","o","s","t",":"," ","h",":","8">>

\* "hOsT:h"
HdrHostMixed == <<"h","O","s","T",":","h">>

\* "HOST:" with an empty value
HdrHostEmpty == <<"H","O","S","T",":">>

\* " ": no token at all
LineBlank == <<" ">>

\* "X: y"
HdrOther == <<"X",":"," ","y">>

Requests ==
    { Req(FALSE, <<>>, <<>>, FALSE, 0),                   \* no line at all
      Req(TRUE, LineShort, <<>>, TRUE, 0),
      Req(TRUE, LineBlank, <<HdrOther>>, TRUE, 0),
      Req(TRUE, LineConnect, <<>>, TRUE, 0),
      Req(TRUE, LineGet, <<HdrHostMixed>>, TRUE, 3),      \* with a body
      Req(TRUE, LineGet, <<HdrHostMixed>>, FALSE, 0),     \* cut before the blank line
      Req(TRUE, LineGet, <<HdrOther>>, FALSE, 0),         \* cut before the blank line
      Req(TRUE, LineGet, <<HdrOther>>, TRUE, 0),
      Req(TRUE, LineGet, <<HdrHostEmpty>>, TRUE, 0) }

\* the header block handle_client accumulates: the request line, every
\* further line read, and the blank line when it was reached
Captured(req) ==
    <<req.line>> \o req.hdrs \o (IF req.blank THEN << <<>> >> ELSE <<>>)

\* first_line.split()
Parts(req) == SplitWS(Strip(req.line), <<>>, <<>>)

\* mutant: the method is compared as the client sent it
Method_AsSent(req) == Parts(req)[1]

\* method = parts[0].upper()
Method(req) == Upper(Parts(req)[1])

\* the lines of the header block that begin with "host:" in any letter case
HostLines(block) ==
    {i \in 1..Len(block) : StartsWith(Lower(block[i]), HostPrefix)}

\* host_header: [found, value]; found is FALSE for None
HostHeader(block) ==
    IF HostLines(block) = {}
    THEN [found |-> FALSE, value |-> <<>>]
    ELSE LET i == CHOOSE k \in HostLines(block) :
                     \A j \in HostLines(block) : k <= j
         IN [found |-> TRUE, value |-> Strip(AfterColon(block[i]))]

\* "if not host_header": None or the empty string
NoHost(block) == ~HostHeader(block).found \/ HostHeader(block).value = <<>>

\* ':' in s
HasColon(s) == \E i \in 1..Len(s) : s[i] = ":"

\* s.split(':')[0]: the text before the first ':', all of s without one
RECURSIVE BeforeColon(_)
BeforeColon(s) ==
    IF s = <<>> \/ Head(s) = ":" THEN <<>>
    ELSE <<Head(s)>> \o BeforeColon(Tail(s))

Digits == <<"0","1","2","3","4","5","6","7","8","9">>

IsDigit(c) == \E i \in 1..10 : Digits[i] = c

DigitValue(c) == (CHOOSE i \in 1..10 : Digits[i] = c) - 1

\* what int() takes after the sign: digits, single underscores between them
Grouped(t) ==
    /\ t # <<>>
    /\ IsDigit(t[1]) /\ IsDigit(t[Len(t)])
    /\ \A i \in 1..Len(t) : IsDigit(t[i]) \/ t[i] = "_"
    /\ \A i \in 1..(Len(t) - 1) : ~(t[i] = "_" /\ t[i + 1] = "_")

RECURSIVE DecValue(_, _)
DecValue(t, acc) ==
    IF t = <<>> THEN acc
    ELSE IF Head(t) = "_" THEN DecValue(Tail(t), acc)
         ELSE DecValue(Tail(t), 10 * acc + DigitValue(Head(t)))

\* int(s): [ok, value]; ok is FALSE where int raises ValueError
ParseInt(s) ==
    LET t == Strip(s)
        signed == t # <<>> /\ Head(t) \in {"+", "-"}
        body == IF signed THEN Tail(t) ELSE t
    IN IF Grouped(body)
       THEN [ok |-> TRUE,
             value |-> IF signed /\ Head(t) = "-" THEN 0 - DecValue(body, 0)
                       ELSE DecValue(body, 0)]
       ELSE [ok |-> FALSE, value |-> 0]

\* port = 443 where the CONNECT target gives none
DefaultTunnelPort == 443

\* target_port = 80 where the Host value gives none
DefaultForwardPort == 80

\* mutant: a port that does not parse falls back to 80 as on the plain path
TunnelDest_Default80(target) ==
    IF HasColon(target)
    THEN [host |-> BeforeColon(target),
          port |-> IF ParseInt(AfterColon(target)).ok
                   THEN ParseInt(AfterColon(target)).value
                   ELSE DefaultForwardPort]
    ELSE [host |-> target, port |-> DefaultTunnelPort]

\* the CONNECT target split at its first ':' into host and port
TunnelDest(target) ==
    IF HasColon(target)
    THEN [host |-> BeforeColon(target),
          port |-> IF ParseInt(AfterColon(target)).ok
                   THEN ParseInt(AfterColon(target)).value
                   ELSE DefaultTunnelPort]
    ELSE [host |-> target, port |-> DefaultTunnelPort]

\* mutant: the whole Host value is taken as the host name
ForwardDest_WholeValue(host_header) ==
    [host |-> host_header,
     port |-> IF HasColon(host_header) /\ ParseInt(AfterColon(host_header)).ok
              THEN ParseInt(AfterColon(host_header)).value
              ELSE DefaultForwardPort]

\* the Host value split into target_host and target_port
ForwardDest(host_header) ==
    [host |-> BeforeColon(host_header),
     port |-> IF HasColon(host_header) /\ ParseInt(AfterColon(host_header)).ok
              THEN ParseInt(AfterColon(host_header)).value
              ELSE DefaultForwardPort]

\* no destination parsed yet
NoDest == [host |-> <<>>, port |-> 0]

\* the launcher is not part of a proxy session
NoGui == [build |-> "none"]

(***************************************************************************)
(* The token bucket of token_bucket_copy                                   *)
(***************************************************************************)
\* mutant: a kilobit is taken as 1024 bits
bytes_per_second_1024(rate_kbps) ==
    (rate_kbps * 1024 * BpsDen) \div (BitsPerByte * RateDen)

\* bytes_per_second = (rate_kbps * KBPS_TO_BPS) / 8.0
bytes_per_second(rate_kbps) ==
    (rate_kbps * KBPS_TO_BPS * BpsDen) \div (BitsPerByte * RateDen)

\* mutant: the bucket starts at the ceiling
InitialTokens_Full(bps) == 2 * bps * TicksPerSec

\* tokens = bytes_per_second: one second of allowance
InitialTokens(bps) == bps * TicksPerSec

\* the ceiling 2 * bytes_per_second
Capacity(bps) == 2 * bps * TicksPerSec

\* mutant: the cap is missing
Refill_NoCap(tokens, elapsed, bps) == tokens + elapsed * bps

\* tokens += elapsed * bytes_per_second, then the cap
Refill(tokens, elapsed, bps) ==
    LET t == tokens + elapsed * bps
    IN IF t > Capacity(bps) THEN Capacity(bps) ELSE t

\* mutant: the minimum is rounded up instead of truncated
Allowed_RoundsUp(tokens, remaining) ==
    Min((tokens + TokenDen - 1) \div TokenDen, Min(max_chunk, remaining))

\* allowed = int(min(tokens, max_chunk, len(data) - idx))
Allowed(tokens, remaining) ==
    Min(tokens \div TokenDen, Min(max_chunk, remaining))

\* tokens -= allowed
Debit(tokens, allowed) == tokens - allowed * TokenDen

(***************************************************************************)
(* State                                                                   *)
(***************************************************************************)
NoRelay ==
    [pc |-> "none", why |-> "", tokens |-> 0, last |-> 0, start |-> 0,
     len |-> 0, idx |-> 0, chunk |-> 0, written |-> 0, consumed |-> 0,
     wake |-> 0, cancel |-> FALSE]

Rate(d) == IF d = "up" THEN up_kbps ELSE down_kbps

\* task_up copies client -> target, task_down copies target -> client
Source(d) == IF d = "up" THEN "client" ELSE "target"

Sink(d) == IF d = "up" THEN "target" ELSE "client"

\* writer.close(): idempotent, and a lost transport stays lost
Close(c) == IF c = "open" THEN "closed" ELSE c

IsClosed(c) == c \in {"closed", "lost"}

Terminated(r) == r.pc \in {"done", "raised", "cancelled"}

\* a task runs without interruption from one await to the next: nothing else
\* happens while a relay is between a completed await and the next one
NoneRunning == \A d \in Dir : relay[d].pc # "flush"

\* the event loop has a callback ready to run
LoopBusy ==
    \/ \E d \in Dir : relay[d].pc \in {"init", "flush"}
    \/ \E d \in Dir : relay[d].cancel /\ ~Terminated(relay[d])
    \/ hpc = "wait" /\ \E d \in Dir : Terminated(relay[d])

\* start_server: pc is its position, attempt the loop variable, binds the
\* calls of asyncio.start_server made, errs the errno of each failed call
Binding ==
    [pc |-> "bind", attempt |-> 0, binds |-> 0, errs |-> <<>>]

\* handle_client runs for connections accepted by a server that is listening
Listening ==
    [pc |-> "serving", attempt |-> 0, binds |-> 1, errs |-> <<>>]

Init ==
    /\ up_kbps \in Rates
    /\ down_kbps \in Rates
    /\ request \in Requests
    /\ hpc = "start"
    /\ path = "none"
    /\ headers = <<>>
    /\ clientOut = <<>>
    /\ targetOut = <<>>
    /\ attempts = 0
    /\ conn = [c \in {"client", "target"} |-> IF c = "client" THEN "open" ELSE "none"]
    /\ avail = [d \in Dir |-> 0]
    /\ eof = [d \in Dir |-> FALSE]
    /\ sends = [d \in Dir |-> 0]
    /\ relay = [d \in Dir |-> NoRelay]
    /\ now = 0
    /\ advances = 0
    /\ firstEnd = [who |-> "none", why |-> "", at |-> 0]
    /\ server = Listening
    /\ dest = NoDest
    /\ gui = NoGui

(***************************************************************************)
(* handle_client: reading and classifying the request                      *)
(***************************************************************************)
\* mutant: the classifier's read also discards what the client sent after
\* the blank line
RequestRead_DropsBuffered ==
    /\ headers' = Captured(request)
    /\ avail' = [avail EXCEPT !["up"] = 0]
    /\ eof' = [eof EXCEPT !["up"] = ~request.blank]

\* what the reads of the request leave behind: the captured block, the bytes
\* after it still buffered in the client reader, and whether the client has
\* stopped sending
RequestRead ==
    /\ headers' = Captured(request)
    /\ avail' = [avail EXCEPT !["up"] = request.body]
    /\ eof' = [eof EXCEPT !["up"] = ~request.blank]

\* the first readuntil raises: close the writer and stop
ReadFails ==
    /\ hpc = "start"
    /\ ~request.readable
    /\ conn' = [conn EXCEPT !["client"] = Close(@)]
    /\ hpc' = "done"
    /\ UNCHANGED <<gui, dest, server, up_kbps, down_kbps, request, path, headers, clientOut,
                   targetOut, attempts, avail, eof, sends, relay, now, advances, firstEnd>>

\* mutant: the handler returns without closing the writer
Malformed_NoClose ==
    /\ hpc = "start"
    /\ request.readable
    /\ Len(Parts(request)) < 2
    /\ RequestRead
    /\ hpc' = "done"
    /\ UNCHANGED <<gui, dest, server, up_kbps, down_kbps, request, path, clientOut, targetOut,
                   attempts, conn, sends, relay, now, advances, firstEnd>>

\* len(parts) < 2: close the writer and stop
Malformed ==
    /\ hpc = "start"
    /\ request.readable
    /\ Len(Parts(request)) < 2
    /\ RequestRead
    /\ conn' = [conn EXCEPT !["client"] = Close(@)]
    /\ hpc' = "done"
    /\ UNCHANGED <<gui, dest, server, up_kbps, down_kbps, request, path, clientOut, targetOut,
                   attempts, sends, relay, now, advances, firstEnd>>

\* method == "CONNECT": write the 200 line, then drain
AcceptConnect ==
    /\ hpc = "start"
    /\ request.readable
    /\ Len(Parts(request)) >= 2
    /\ Method(request) = CONNECT
    /\ RequestRead
    /\ path' = "tunnel"
    /\ dest' = TunnelDest(Parts(request)[2])
    /\ clientOut' = Append(clientOut, "200")
    /\ hpc' = "drain200"
    /\ UNCHANGED <<gui, server, up_kbps, down_kbps, request, targetOut, attempts, conn,
                   sends, relay, now, advances, firstEnd>>

\* any other method, no usable Host header: write the 400 line, then drain
RejectNoHost ==
    /\ hpc = "start"
    /\ request.readable
    /\ Len(Parts(request)) >= 2
    /\ Method(request) # CONNECT
    /\ NoHost(Captured(request))
    /\ RequestRead
    /\ path' = "forward"
    /\ clientOut' = Append(clientOut, "400")
    /\ hpc' = "drain400"
    /\ UNCHANGED <<gui, dest, server, up_kbps, down_kbps, request, targetOut, attempts, conn,
                   sends, relay, now, advances, firstEnd>>

\* any other method with a Host header: go on to open_connection
RouteForward ==
    /\ hpc = "start"
    /\ request.readable
    /\ Len(Parts(request)) >= 2
    /\ Method(request) # CONNECT
    /\ ~NoHost(Captured(request))
    /\ RequestRead
    /\ path' = "forward"
    /\ dest' = ForwardDest(HostHeader(Captured(request)).value)
    /\ hpc' = "connect"
    /\ UNCHANGED <<gui, server, up_kbps, down_kbps, request, clientOut, targetOut, attempts,
                   conn, sends, relay, now, advances, firstEnd>>

\* await writer.drain() after the 200 line; it raises when the client is gone
Drain200 ==
    /\ hpc = "drain200"
    /\ hpc' = IF conn["client"] = "open" THEN "connect" ELSE "raised"
    /\ UNCHANGED <<gui, dest, server, up_kbps, down_kbps, request, path, headers, clientOut,
                   targetOut, attempts, conn, avail, eof, sends, relay, now,
                   advances, firstEnd>>

\* mutant: writer.close() is missing after the 400 line
Drain400_NoClose ==
    /\ hpc = "drain400"
    /\ hpc' = IF conn["client"] = "open" THEN "done" ELSE "raised"
    /\ UNCHANGED <<gui, dest, server, up_kbps, down_kbps, request, path, headers, clientOut,
                   targetOut, attempts, conn, avail, eof, sends, relay, now,
                   advances, firstEnd>>

\* await writer.drain(); writer.close() after the 400 line
Drain400 ==
    /\ hpc = "drain400"
    /\ IF conn["client"] = "open"
       THEN /\ conn' = [conn EXCEPT !["client"] = Close(@)]
            /\ hpc' = "done"
       ELSE /\ hpc' = "raised"
            /\ UNCHANGED conn
    /\ UNCHANGED <<gui, dest, server, up_kbps, down_kbps, request, path, headers, clientOut,
                   targetOut, attempts, avail, eof, sends, relay, now, advances, firstEnd>>

(***************************************************************************)
(* The outbound connection                                                 *)
(***************************************************************************)
\* asyncio.create_task for task_up and task_down
StartRelays == relay' = [d \in Dir |-> [NoRelay EXCEPT !.pc = "init"]]

\* handle_tunnel: open_connection succeeds, the two tasks are created
TunnelConnected ==
    /\ hpc = "connect"
    /\ path = "tunnel"
    /\ attempts' = attempts + 1
    /\ conn' = [conn EXCEPT !["target"] = "open"]
    /\ StartRelays
    /\ hpc' = "wait"
    /\ UNCHANGED <<gui, dest, server, up_kbps, down_kbps, request, path, headers, clientOut,
                   targetOut, avail, eof, sends, now, advances, firstEnd>>

\* handle_tunnel: open_connection raises, the 502 line is written
TunnelUnreachable ==
    /\ hpc = "connect"
    /\ path = "tunnel"
    /\ attempts' = attempts + 1
    /\ clientOut' = Append(clientOut, "502")
    /\ hpc' = "drain502"
    /\ UNCHANGED <<gui, dest, server, up_kbps, down_kbps, request, path, headers, targetOut, conn,
                   avail, eof, sends, relay, now, advances, firstEnd>>

\* handle_client: open_connection succeeds, the header block is written to
\* the remote writer
ForwardConnected ==
    /\ hpc = "connect"
    /\ path = "forward"
    /\ attempts' = attempts + 1
    /\ conn' = [conn EXCEPT !["target"] = "open"]
    /\ targetOut' = Append(targetOut, headers)
    /\ hpc' = "drainhdr"
    /\ UNCHANGED <<gui, dest, server, up_kbps, down_kbps, request, path, headers, clientOut,
                   avail, eof, sends, relay, now, advances, firstEnd>>

\* mutant: a failed open_connection is tried once more
ForwardUnreachable_Retry ==
    /\ hpc = "connect"
    /\ path = "forward"
    /\ attempts' = attempts + 1
    /\ IF attempts = 0
       THEN UNCHANGED <<clientOut, hpc>>
       ELSE /\ clientOut' = Append(clientOut, "502")
            /\ hpc' = "drain502"
    /\ UNCHANGED <<gui, dest, server, up_kbps, down_kbps, request, path, headers, targetOut, conn,
                   avail, eof, sends, relay, now, advances, firstEnd>>

\* handle_client: open_connection raises, the 502 line is written
ForwardUnreachable ==
    /\ hpc = "connect"
    /\ path = "forward"
    /\ attempts' = attempts + 1
    /\ clientOut' = Append(clientOut, "502")
    /\ hpc' = "drain502"
    /\ UNCHANGED <<gui, dest, server, up_kbps, down_kbps, request, path, headers, targetOut, conn,
                   avail, eof, sends, relay, now, advances, firstEnd>>

\* the drain after the 502 line, then writer.close(): handle_tunnel swallows
\* a failure of the drain, handle_client does not
Drain502 ==
    /\ hpc = "drain502"
    /\ IF conn["client"] = "open" \/ path = "tunnel"
       THEN /\ conn' = [conn EXCEPT !["client"] = Close(@)]
            /\ hpc' = "done"
       ELSE /\ hpc' = "raised"
            /\ UNCHANGED conn
    /\ UNCHANGED <<gui, dest, server, up_kbps, down_kbps, request, path, headers, clientOut,
                   targetOut, attempts, avail, eof, sends, relay, now, advances, firstEnd>>

\* await remote_writer.drain() after the header block, then the two tasks.
\* When the drain raises, nothing in handle_client catches it and neither
\* writer.close() is reached: the client transport stays open, unless the
\* interpreter's stream callback closes it for the failed handler (Python
\* 3.12 and later do, earlier versions do not).
DrainHeaders ==
    /\ hpc = "drainhdr"
    /\ IF conn["target"] = "open"
       THEN /\ StartRelays
            /\ hpc' = "wait"
            /\ UNCHANGED conn
       ELSE /\ hpc' = "raised"
            /\ conn' \in {conn, [conn EXCEPT !["client"] = Close(@)]}
            /\ UNCHANGED relay
    /\ UNCHANGED <<gui, dest, server, up_kbps, down_kbps, request, path, headers, clientOut,
                   targetOut, attempts, avail, eof, sends, now, advances, firstEnd>>

\* mutant: the pending task is not cancelled
Teardown_NoCancel ==
    /\ hpc = "wait"
    /\ NoneRunning
    /\ \E d \in Dir : Terminated(relay[d])
    /\ \A d \in Dir : relay[d].pc # "init"
    /\ conn' = [c \in {"client", "target"} |-> Close(conn[c])]
    /\ hpc' = "done"
    /\ UNCHANGED <<gui, dest, server, up_kbps, down_kbps, request, path, headers, clientOut,
                   targetOut, attempts, avail, eof, sends, relay, now, advances,
                   firstEnd>>

\* mutant: the pending task is cancelled but the streams are left open
Teardown_NoClose ==
    /\ hpc = "wait"
    /\ NoneRunning
    /\ \E d \in Dir : Terminated(relay[d])
    /\ \A d \in Dir : relay[d].pc # "init"
    /\ relay' = [d \in Dir |->
                   IF Terminated(relay[d]) THEN relay[d]
                   ELSE [relay[d] EXCEPT !.cancel = TRUE]]
    /\ hpc' = "done"
    /\ UNCHANGED <<gui, dest, server, up_kbps, down_kbps, request, path, headers, clientOut,
                   targetOut, attempts, conn, avail, eof, sends, now, advances, firstEnd>>

\* asyncio.wait(FIRST_COMPLETED) returns: cancel what is pending, close both
\* writers.  Both tasks were scheduled before the handler suspended, so both
\* have taken their first step by then.
Teardown ==
    /\ hpc = "wait"
    /\ NoneRunning
    /\ \E d \in Dir : Terminated(relay[d])
    /\ \A d \in Dir : relay[d].pc # "init"
    /\ relay' = [d \in Dir |->
                   IF Terminated(relay[d]) THEN relay[d]
                   ELSE [relay[d] EXCEPT !.cancel = TRUE]]
    /\ conn' = [c \in {"client", "target"} |-> Close(conn[c])]
    /\ hpc' = "done"
    /\ UNCHANGED <<gui, dest, server, up_kbps, down_kbps, request, path, headers, clientOut,
                   targetOut, attempts, avail, eof, sends, now, advances, firstEnd>>

(***************************************************************************)
(* token_bucket_copy: one relay task, d its direction                      *)
(***************************************************************************)
NoteEnd(d, why) ==
    firstEnd' = IF firstEnd.who = "none"
                THEN [who |-> d, why |-> why, at |-> now]
                ELSE firstEnd

\* mutant: the relay returns without closing its writer
RelayRefuse_NoClose(d) ==
    /\ relay[d].pc = "init"
    /\ ~relay[d].cancel
    /\ Rate(d) <= 0
    /\ relay' = [relay EXCEPT ![d].pc = "done", ![d].why = "refused"]
    /\ NoteEnd(d, "refused")
    /\ UNCHANGED <<gui, dest, server, up_kbps, down_kbps, request, hpc, path, headers, clientOut,
                   targetOut, attempts, conn, avail, eof, sends, now, advances>>

\* rate_kbps <= 0: await writer.drain(); writer.close(); return.  Nothing was
\* written, so the drain returns at once, or raises when the sink's
\* connection is already gone (and then close() is not reached).
RelayRefuse(d) ==
    /\ relay[d].pc = "init"
    /\ ~relay[d].cancel
    /\ Rate(d) <= 0
    /\ IF conn[Sink(d)] = "open"
       THEN /\ conn' = [conn EXCEPT ![Sink(d)] = Close(@)]
            /\ relay' = [relay EXCEPT ![d].pc = "done", ![d].why = "refused"]
       ELSE /\ relay' = [relay EXCEPT ![d].pc = "raised", ![d].why = "refused"]
            /\ UNCHANGED conn
    /\ NoteEnd(d, "refused")
    /\ UNCHANGED <<gui, dest, server, up_kbps, down_kbps, request, hpc, path, headers, clientOut,
                   targetOut, attempts, avail, eof, sends, now, advances>>

\* rate_kbps > 0: the bucket is set up and the first read is issued
RelayStart(d) ==
    /\ relay[d].pc = "init"
    /\ ~relay[d].cancel
    /\ Rate(d) > 0
    /\ relay' = [relay EXCEPT
                   ![d].tokens = InitialTokens(bytes_per_second(Rate(d))),
                   ![d].last = now,
                   ![d].start = now,
                   ![d].pc = "read"]
    /\ UNCHANGED <<gui, dest, server, up_kbps, down_kbps, request, hpc, path, headers, clientOut,
                   targetOut, attempts, conn, avail, eof, sends, now, advances, firstEnd>>

\* data = await reader.read(8192) returns bytes
RelayRead(d) ==
    /\ relay[d].pc = "read"
    /\ ~relay[d].cancel
    /\ NoneRunning
    /\ conn[Source(d)] # "lost"
    /\ avail[d] > 0
    /\ LET n == Min(avail[d], ReadSize)
       IN /\ avail' = [avail EXCEPT ![d] = @ - n]
          /\ relay' = [relay EXCEPT ![d].len = n, ![d].idx = 0,
                                    ![d].consumed = @ + n, ![d].pc = "flush"]
    /\ UNCHANGED <<gui, dest, server, up_kbps, down_kbps, request, hpc, path, headers, clientOut,
                   targetOut, attempts, conn, eof, sends, now, advances, firstEnd>>

\* the read returns b"" (the peer closed, or the transport was closed here):
\* break.  Or it raises (the connection was reset): "except Exception: pass".
RelayReadEnds(d) ==
    /\ relay[d].pc = "read"
    /\ ~relay[d].cancel
    /\ NoneRunning
    /\ \/ conn[Source(d)] = "lost"
       \/ avail[d] = 0 /\ (eof[d] \/ conn[Source(d)] = "closed")
    /\ LET why == IF conn[Source(d)] = "lost" THEN "error" ELSE "eof"
       IN /\ relay' = [relay EXCEPT ![d].pc = "done", ![d].why = why]
          /\ NoteEnd(d, why)
    /\ UNCHANGED <<gui, dest, server, up_kbps, down_kbps, request, hpc, path, headers, clientOut,
                   targetOut, attempts, conn, avail, eof, sends, now, advances>>

\* one pass of "while idx < len(data)" up to its await: refill, cap, compute
\* allowed, then either sleep or write the chunk and drain
\* mutant: the tokens are debited when the chunk is written, before its drain
Grant_DebitsAtWrite(r, bps, t) ==
    LET tokens == Refill(r.tokens, t - r.last, bps)
        allowed == Allowed(tokens, r.len - r.idx)
    IN IF allowed <= 0
       THEN [r EXCEPT !.tokens = tokens, !.last = t, !.pc = "sleep",
                      !.wake = t + SleepTicks]
       ELSE [r EXCEPT !.tokens = Debit(tokens, allowed), !.last = t,
                      !.pc = "drain", !.chunk = allowed, !.written = @ + allowed]

Grant(r, bps, t) ==
    LET tokens == Refill(r.tokens, t - r.last, bps)
        allowed == Allowed(tokens, r.len - r.idx)
    IN IF allowed <= 0
       THEN [r EXCEPT !.tokens = tokens, !.last = t, !.pc = "sleep",
                      !.wake = t + SleepTicks]
       ELSE [r EXCEPT !.tokens = tokens, !.last = t, !.pc = "drain",
                      !.chunk = allowed, !.written = @ + allowed]

\* mutant: tokens and last are module-level, one bucket shared by all relays
RelayGrant_SharedBucket(d) ==
    /\ relay[d].pc = "flush"
    /\ LET g == Grant(relay[d], bytes_per_second(Rate(d)), now)
       IN relay' = [x \in Dir |->
                      IF x = d THEN g
                      ELSE [relay[x] EXCEPT !.tokens = g.tokens, !.last = g.last]]
    /\ UNCHANGED <<gui, dest, server, up_kbps, down_kbps, request, hpc, path, headers, clientOut,
                   targetOut, attempts, conn, avail, eof, sends, now, advances, firstEnd>>

RelayGrant(d) ==
    /\ relay[d].pc = "flush"
    /\ relay' = [relay EXCEPT ![d] = Grant(@, bytes_per_second(Rate(d)), now)]
    /\ UNCHANGED <<gui, dest, server, up_kbps, down_kbps, request, hpc, path, headers, clientOut,
                   targetOut, attempts, conn, avail, eof, sends, now, advances, firstEnd>>

\* mutant: the offset is not advanced, the same bytes are written again
Drained_NoAdvance(r) ==
    [r EXCEPT !.tokens = Debit(r.tokens, r.chunk), !.chunk = 0, !.pc = "flush"]

\* the drain returned: idx += allowed; tokens -= allowed; then the loop test
\* (the buffer of a finished read is dead and is dropped from the state)
Drained(r) ==
    LET idx == r.idx + r.chunk
        tokens == Debit(r.tokens, r.chunk)
    IN IF idx < r.len
       THEN [r EXCEPT !.idx = idx, !.tokens = tokens, !.chunk = 0, !.pc = "flush"]
       ELSE [r EXCEPT !.idx = 0, !.len = 0, !.tokens = tokens, !.chunk = 0,
                      !.pc = "read"]

RelayDrain(d) ==
    /\ relay[d].pc = "drain"
    /\ ~relay[d].cancel
    /\ NoneRunning
    /\ conn[Sink(d)] = "open"
    /\ relay' = [relay EXCEPT ![d] = Drained(@)]
    /\ UNCHANGED <<gui, dest, server, up_kbps, down_kbps, request, hpc, path, headers, clientOut,
                   targetOut, attempts, conn, avail, eof, sends, now, advances, firstEnd>>

\* the drain raises ConnectionResetError: return
RelayDrainReset(d) ==
    /\ relay[d].pc = "drain"
    /\ ~relay[d].cancel
    /\ NoneRunning
    /\ conn[Sink(d)] # "open"
    /\ relay' = [relay EXCEPT ![d].pc = "done", ![d].why = "reset"]
    /\ NoteEnd(d, "reset")
    /\ UNCHANGED <<gui, dest, server, up_kbps, down_kbps, request, hpc, path, headers, clientOut,
                   targetOut, attempts, conn, avail, eof, sends, now, advances>>

\* asyncio.sleep(0.01) is over: continue
RelayWake(d) ==
    /\ relay[d].pc = "sleep"
    /\ ~relay[d].cancel
    /\ NoneRunning
    /\ now >= relay[d].wake
    /\ relay' = [relay EXCEPT ![d].pc = "flush", ![d].wake = 0]
    /\ UNCHANGED <<gui, dest, server, up_kbps, down_kbps, request, hpc, path, headers, clientOut,
                   targetOut, attempts, conn, avail, eof, sends, now, advances, firstEnd>>

\* mutant: the CancelledError is swallowed and the loop goes on
Cancelled_Swallowed(r) == [r EXCEPT !.cancel = FALSE]

\* CancelledError is thrown into the task at the await it is suspended in;
\* "except asyncio.CancelledError: raise" lets it end the task
Cancelled(r) == [r EXCEPT !.pc = "cancelled", !.why = "cancelled"]

\* mutant: the CancelledError is caught with the other exceptions and the
\* task returns normally
RelayCancelled_Caught(d) ==
    /\ relay[d].cancel
    /\ relay[d].pc \in {"read", "drain", "sleep"}
    /\ relay' = [relay EXCEPT ![d].pc = "done", ![d].why = "error"]
    /\ UNCHANGED <<gui, dest, server, up_kbps, down_kbps, request, hpc, path, headers, clientOut,
                   targetOut, attempts, conn, avail, eof, sends, now, advances, firstEnd>>

RelayCancelled(d) ==
    /\ relay[d].cancel
    /\ relay[d].pc \in {"read", "drain", "sleep"}
    /\ relay' = [relay EXCEPT ![d] = Cancelled(@)]
    /\ UNCHANGED <<gui, dest, server, up_kbps, down_kbps, request, hpc, path, headers, clientOut,
                   targetOut, attempts, conn, avail, eof, sends, now, advances, firstEnd>>

(***************************************************************************)
(* The peers and the clock                                                 *)
(***************************************************************************)
\* the peer a relay reads from sends k more bytes
PeerSends(d, k, limit) ==
    /\ hpc = "wait"
    /\ NoneRunning
    /\ conn[Source(d)] = "open"
    /\ ~eof[d]
    /\ sends[d] < limit
    /\ avail' = [avail EXCEPT ![d] = @ + k]
    /\ sends' = [sends EXCEPT ![d] = @ + 1]
    /\ UNCHANGED <<gui, dest, server, up_kbps, down_kbps, request, hpc, path, headers, clientOut,
                   targetOut, attempts, conn, eof, relay, now, advances, firstEnd>>

\* the peer a relay reads from closes its write side
PeerCloses(d) ==
    /\ hpc = "wait"
    /\ NoneRunning
    /\ conn[Source(d)] = "open"
    /\ ~eof[d]
    /\ eof' = [eof EXCEPT ![d] = TRUE]
    /\ UNCHANGED <<gui, dest, server, up_kbps, down_kbps, request, hpc, path, headers, clientOut,
                   targetOut, attempts, conn, avail, sends, relay, now, advances, firstEnd>>

\* a peer resets its connection and the transport's connection_lost has run.
\* The first steps of the two tasks were scheduled by create_task before any
\* later connection_lost callback can be, so they run first.
PeerResets(c) ==
    /\ hpc \notin {"start", "done", "raised"}
    /\ NoneRunning
    /\ \A d \in Dir : relay[d].pc # "init"
    /\ conn[c] = "open"
    /\ conn' = [conn EXCEPT ![c] = "lost"]
    /\ UNCHANGED <<gui, dest, server, up_kbps, down_kbps, request, hpc, path, headers, clientOut,
                   targetOut, attempts, avail, eof, sends, relay, now, advances, firstEnd>>

\* time passes while a relay is suspended in an await and the event loop has
\* nothing ready to run.  Only differences of clock readings are used, and
\* the first reading is taken when a relay starts, so the clock is kept at 0
\* until then.
Tick(j, limit) ==
    /\ \E d \in Dir : relay[d].pc \in {"read", "drain", "sleep"}
    /\ ~LoopBusy
    /\ advances < limit
    /\ now' = now + j
    /\ advances' = advances + 1
    /\ UNCHANGED <<gui, dest, server, up_kbps, down_kbps, request, hpc, path, headers, clientOut,
                   targetOut, attempts, conn, avail, eof, sends, relay, firstEnd>>

Handler ==
    \/ ReadFails
    \/ Malformed
    \/ AcceptConnect
    \/ RejectNoHost
    \/ RouteForward
    \/ Drain200
    \/ Drain400
    \/ TunnelConnected
    \/ TunnelUnreachable
    \/ ForwardConnected
    \/ ForwardUnreachable
    \/ Drain502
    \/ DrainHeaders
    \/ Teardown

Relay(d) ==
    \/ RelayStart(d)
    \/ RelayRead(d)
    \/ RelayReadEnds(d)
    \/ RelayGrant(d)
    \/ RelayDrain(d)
    \/ RelayDrainReset(d)
    \/ RelayWake(d)
    \/ RelayCancelled(d)

Next ==
    \/ Handler
    \/ \E d \in Dir : RelayRefuse(d)
    \/ \E d \in Dir : Relay(d)
    \/ \E d \in Dir, k \in SendSizes : PeerSends(d, k, MaxSends)
    \/ \E d \in Dir : PeerCloses(d)
    \/ \E c \in {"client", "target"} : PeerResets(c)
    \/ \E j \in Jumps : Tick(j, MaxAdvances)

Spec == Init /\ [][Next]_vars

(***************************************************************************)
(* BucketSpec: a session with positive limits whose target stays silent;   *)
(* the client sends, closes or resets, and the clock is fine-grained       *)
(***************************************************************************)
InitBucket ==
    /\ up_kbps \in BucketRates
    /\ down_kbps = up_kbps
    /\ request \in {r \in Requests : /\ r.readable
                                       /\ Len(Parts(r)) >= 2
                                       /\ Method(r) # CONNECT
                                       /\ ~NoHost(Captured(r))}
    /\ hpc = "start"
    /\ path = "none"
    /\ headers = <<>>
    /\ clientOut = <<>>
    /\ targetOut = <<>>
    /\ attempts = 0
    /\ conn = [c \in {"client", "target"} |-> IF c = "client" THEN "open" ELSE "none"]
    /\ avail = [d \in Dir |-> 0]
    /\ eof = [d \in Dir |-> FALSE]
    /\ sends = [d \in Dir |-> 0]
    /\ relay = [d \in Dir |-> NoRelay]
    /\ now = 0
    /\ advances = 0
    /\ firstEnd = [who |-> "none", why |-> "", at |-> 0]
    /\ server = Listening
    /\ dest = NoDest
    /\ gui = NoGui

NextBucket ==
    \/ RouteForward
    \/ ForwardConnected
    \/ DrainHeaders
    \/ Teardown
    \/ \E d \in Dir : Relay(d)
    \/ \E k \in BucketSendSizes : PeerSends("up", k, MaxBucketSends)
    \/ PeerCloses("up")
    \/ PeerResets("target")
    \/ \E j \in BucketJumps : Tick(j, MaxBucketAdvances)

BucketSpec == InitBucket /\ [][NextBucket]_vars

(***************************************************************************)
(* ServerSpec: start_server, before any client has connected               *)
(***************************************************************************)
\* the errno start_server tests for
WSAEADDRINUSE == 10048

\* "address already in use" as the platforms number it: Linux, the BSDs and
\* macOS, Windows
AddressInUse == {98, 48, WSAEADDRINUSE}

\* the errno values a failed bind is tried with: the above, EACCES and
\* EADDRNOTAVAIL
Errnos == AddressInUse \cup {13, 99}

InitServer ==
    /\ up_kbps \in Rates
    /\ down_kbps \in Rates
    /\ request = Req(FALSE, <<>>, <<>>, FALSE, 0)
    /\ hpc = "start"
    /\ path = "none"
    /\ headers = <<>>
    /\ clientOut = <<>>
    /\ targetOut = <<>>
    /\ attempts = 0
    /\ conn = [c \in {"client", "target"} |-> IF c = "client" THEN "open" ELSE "none"]
    /\ avail = [d \in Dir |-> 0]
    /\ eof = [d \in Dir |-> FALSE]
    /\ sends = [d \in Dir |-> 0]
    /\ relay = [d \in Dir |-> NoRelay]
    /\ now = 0
    /\ advances = 0
    /\ firstEnd = [who |-> "none", why |-> "", at |-> 0]
    /\ server = Binding
    /\ dest = NoDest
    /\ gui = NoGui

\* asyncio.start_server returns a server: break, then serve_forever
BindSucceeds ==
    /\ server.pc = "bind"
    /\ server' = [server EXCEPT !.pc = "serving", !.binds = @ + 1]
    /\ UNCHANGED <<gui, dest, up_kbps, down_kbps, request, hpc, path, headers, clientOut,
                   targetOut, attempts, conn, avail, eof, sends, relay, now,
                   advances, firstEnd>>

\* except OSError as e: errno 10048 sleeps and retries on the first attempt
\* and returns on the second; any other errno is raised again
AfterOSError(srv, e) ==
    IF e = WSAEADDRINUSE
    THEN IF srv.attempt = 0 THEN "retrysleep" ELSE "returned"
    ELSE "raised"

\* asyncio.start_server raises OSError with errno e
BindFails(e) ==
    /\ server.pc = "bind"
    /\ server' = [server EXCEPT !.pc = AfterOSError(server, e),
                                !.binds = @ + 1,
                                !.errs = Append(@, e)]
    /\ UNCHANGED <<gui, dest, up_kbps, down_kbps, request, hpc, path, headers, clientOut,
                   targetOut, attempts, conn, avail, eof, sends, relay, now,
                   advances, firstEnd>>

\* asyncio.sleep(1) is over: continue with the next attempt of range(2)
RetryWake ==
    /\ server.pc = "retrysleep"
    /\ server' = [server EXCEPT !.pc = "bind", !.attempt = @ + 1]
    /\ UNCHANGED <<gui, dest, up_kbps, down_kbps, request, hpc, path, headers, clientOut,
                   targetOut, attempts, conn, avail, eof, sends, relay, now,
                   advances, firstEnd>>

\* serve_forever is cancelled: pass, then close and wait_closed
ServeCancelled ==
    /\ server.pc = "serving"
    /\ server' = [server EXCEPT !.pc = "closed"]
    /\ UNCHANGED <<gui, dest, up_kbps, down_kbps, request, hpc, path, headers, clientOut,
                   targetOut, attempts, conn, avail, eof, sends, relay, now,
                   advances, firstEnd>>

NextServer ==
    \/ BindSucceeds
    \/ \E e \in Errnos : BindFails(e)
    \/ RetryWake
    \/ ServeCancelled

ServerSpec == InitServer /\ [][NextServer]_vars

(***************************************************************************)
(* ParseSpec: the classification of many request heads; the destination is *)
(* unreachable, so that every session ends at its connection attempt       *)
(***************************************************************************)
\* "CoNnEcT h:x": a port that is no number
LineConnectBadPort == <<"C","o","N","n","E","c","T"," ","h",":","x">>

\* "CONNECT h:": an empty port
LineConnectNoPort == <<"C","O","N","N","E","C","T"," ","h",":">>

\* "CONNECT h:8:9": two colons
LineConnectTwoColons == <<"C","O","N","N","E","C","T"," ","h",":","8",":","9">>

\* "CONNECT  g:443 x": two blanks, a port of three digits, a third token
LineConnect443 ==
    <<"C","O","N","N","E","C","T"," "," ","g",":","4","4","3"," ","x">>

\* "CONNECTS h:8": another method
LineConnects == <<"C","O","N","N","E","C","T","S"," ","h",":","8">>

\* " get  / ": blanks around and between the tokens
LineGetSpaced == <<" ","g","e","t"," "," ","/"," ">>

\* "Host: h:x"
HdrHostBadPort == <<"H","o","s","t",":"," ","h",":","x">>

\* "HOST: g:8080 "
HdrHost8080 == <<"H","O","S","T",":"," ","g",":","8","0","8","0"," ">>

\* "Host: h: 8": a blank before the port
HdrHostSpacedPort == <<"H","o","s","t",":"," ","h",":"," ","8">>

ParseRequests ==
    { Req(TRUE, LineShort, <<>>, TRUE, 0),
      Req(TRUE, LineConnect, <<>>, TRUE, 0),
      Req(TRUE, LineConnectLower, <<HdrHost>>, TRUE, 0),
      Req(TRUE, LineConnectBadPort, <<>>, TRUE, 0),
      Req(TRUE, LineConnectNoPort, <<>>, TRUE, 0),
      Req(TRUE, LineConnectTwoColons, <<>>, TRUE, 0),
      Req(TRUE, LineConnect443, <<>>, TRUE, 0),
      Req(TRUE, LineConnects, <<>>, TRUE, 0),
      Req(TRUE, LineConnects, <<HdrHost>>, TRUE, 0),
      Req(TRUE, LineGet, <<HdrHost>>, TRUE, 0),
      Req(TRUE, LineGetSpaced, <<HdrHostMixed>>, TRUE, 0),
      Req(TRUE, LineGet, <<HdrHostBadPort>>, TRUE, 0),
      Req(TRUE, LineGet, <<HdrHost8080>>, TRUE, 0),
      Req(TRUE, LineGet, <<HdrHostSpacedPort>>, TRUE, 0),
      Req(TRUE, LineGet, <<HdrOther, HdrHostMixed, HdrHost>>, TRUE, 0),
      Req(TRUE, LineGet, <<HdrHostEmpty, HdrHost>>, TRUE, 0),
      Req(TRUE, LineGet, <<HdrOther>>, TRUE, 0) }

InitParse ==
    /\ up_kbps \in Rates
    /\ down_kbps \in Rates
    /\ request \in ParseRequests
    /\ hpc = "start"
    /\ path = "none"
    /\ headers = <<>>
    /\ clientOut = <<>>
    /\ targetOut = <<>>
    /\ attempts = 0
    /\ conn = [c \in {"client", "target"} |-> IF c = "client" THEN "open" ELSE "none"]
    /\ avail = [d \in Dir |-> 0]
    /\ eof = [d \in Dir |-> FALSE]
    /\ sends = [d \in Dir |-> 0]
    /\ relay = [d \in Dir |-> NoRelay]
    /\ now = 0
    /\ advances = 0
    /\ firstEnd = [who |-> "none", why |-> "", at |-> 0]
    /\ server = Listening
    /\ dest = NoDest
    /\ gui = NoGui

NextParse ==
    \/ Malformed
    \/ AcceptConnect
    \/ RejectNoHost
    \/ RouteForward
    \/ Drain200
    \/ Drain400
    \/ TunnelUnreachable
    \/ ForwardUnreachable
    \/ Drain502

ParseSpec == InitParse /\ [][NextParse]_vars

(***************************************************************************)
(* LauncherSpec: throttleW.ThrottleApp, its Start Proxy and Stop Proxy      *)
(* buttons, the proxies it has launched and TCP port 8888 of the machine   *)
(***************************************************************************)
\* line 265: start_proxy probes this port to see whether a proxy is running
ProbePort == 8888

\* line 304: the port find_free_port is asked to prefer
PreferredPort == 8888

\* lines 343 and 361: the port whose owners stop_proxy terminates, and which
\* it probes afterwards (line 368)
StopPort == 8888

\* ports the OS may hand out for bind(('127.0.0.1', 0))
EphemeralPorts == {49152, 49153}

\* how the launcher was built: on Windows proxy_proc is the PowerShell
\* launcher and the proxy is bandwidth_proxy.exe; elsewhere proxy_proc is the
\* proxy itself, a bandwidth_proxy binary or a bandwidth_proxy.py script
\* whose process bears the interpreter's name
Builds == {"windows", "posix-binary", "posix-script"}

\* self.proxy_proc = None
NoProc == [kind |-> "none", port |-> 0]

\* ThrottleApp.__init__ on a machine whose port 8888 is free.  `listening`
\* is the set of ports on which a launched proxy listens; `other` tells what
\* else holds port 8888: nothing, a listener that is no launched proxy, or
\* connections in TIME_WAIT left by a terminated listener; `launcher` tells
\* whether the PowerShell process of the last launch is still running.
InitGui(b) ==
    [build |-> b, listening |-> {}, other |-> "free",
     current_port |-> PreferredPort, proxy_proc |-> NoProc,
     launcher |-> FALSE, last |-> "none", status |-> "idle"]

\* connect_ex(('127.0.0.1', p)) == 0
Connectable(g, p) ==
    \/ p \in g.listening
    \/ p = PreferredPort /\ g.other = "listener"

\* sock.bind(('127.0.0.1', p)) succeeds; the socket sets no SO_REUSEADDR
Bindable(g, p) ==
    /\ p \notin g.listening
    /\ p = PreferredPort => g.other = "free"

\* find_free_port: the ports it may return
find_free_port(g, preferred) ==
    IF Bindable(g, preferred)
    THEN {preferred}
    ELSE {p \in EphemeralPorts : Bindable(g, p)}

\* stop_proxy: whatever owns StopPort is terminated, a launched proxy for
\* certain, another program's listener if the launcher may terminate it;
\* then the port is probed and the outcome logged
stop_proxy(g) ==
    LET others == IF g.other = "listener" THEN {"listener", "free", "timewait"}
                  ELSE IF StopPort \in g.listening THEN {"free", "timewait"}
                  ELSE {g.other}
    IN { [g EXCEPT !.listening = @ \ {StopPort},
                   !.other = o,
                   !.status = IF o = "listener" THEN "still active" ELSE "stopped",
                   !.last = "stop"] : o \in others }

\* lines 272-279: processes whose name starts with bandwidth_proxy are
\* terminated; a proxy run as a script bears the interpreter's name
KillOrphans(g) ==
    IF g.build = "posix-script" THEN g ELSE [g EXCEPT !.listening = {}]

\* self.proxy_proc and self.proxy_proc.poll() is None
AlreadyRunning(g) ==
    \/ g.proxy_proc.kind = "proxy" /\ g.proxy_proc.port \in g.listening
    \/ g.proxy_proc.kind = "launcher" /\ g.launcher

\* lines 304-327: choose the port, launch the proxy on it, wait for it to
\* listen
Launch(g) ==
    { [g EXCEPT !.current_port = p,
                !.listening = @ \cup {p},
                !.proxy_proc = [kind |-> IF g.build = "windows"
                                         THEN "launcher" ELSE "proxy",
                                port |-> p],
                !.launcher = (g.build = "windows"),
                !.status = "running",
                !.last = "start"] : p \in find_free_port(g, PreferredPort) }

\* start_proxy: stop the old proxy if the probe port answers, terminate
\* orphans, return if the proxy is already running, launch otherwise
start_proxy(g) ==
    LET probed == IF Connectable(g, ProbePort) THEN stop_proxy(g) ELSE {g}
        Rest(h) == IF AlreadyRunning(h)
                   THEN {[h EXCEPT !.last = "start"]}
                   ELSE Launch(h)
    IN UNION {Rest(KillOrphans(h)) : h \in probed}

\* the Start Proxy button
StartProxy ==
    /\ gui' \in start_proxy(gui)
    /\ UNCHANGED <<dest, server, up_kbps, down_kbps, request, hpc, path, headers,
                   clientOut, targetOut, attempts, conn, avail, eof, sends, relay,
                   now, advances, firstEnd>>

\* the Stop Proxy button
StopProxy ==
    /\ gui' \in stop_proxy(gui)
    /\ UNCHANGED <<dest, server, up_kbps, down_kbps, request, hpc, path, headers,
                   clientOut, targetOut, attempts, conn, avail, eof, sends, relay,
                   now, advances, firstEnd>>

\* the PowerShell process that started the proxy exits
LauncherExits ==
    /\ gui.launcher
    /\ gui' = [gui EXCEPT !.launcher = FALSE]
    /\ UNCHANGED <<dest, server, up_kbps, down_kbps, request, hpc, path, headers,
                   clientOut, targetOut, attempts, conn, avail, eof, sends, relay,
                   now, advances, firstEnd>>

\* another program starts listening on port 8888
ForeignBinds ==
    /\ gui.other = "free"
    /\ PreferredPort \notin gui.listening
    /\ gui' = [gui EXCEPT !.other = "listener"]
    /\ UNCHANGED <<dest, server, up_kbps, down_kbps, request, hpc, path, headers,
                   clientOut, targetOut, attempts, conn, avail, eof, sends, relay,
                   now, advances, firstEnd>>

\* the other program leaves port 8888, or the TIME_WAIT period is over
PortReleased ==
    /\ gui.other # "free"
    /\ gui' = [gui EXCEPT !.other = "free"]
    /\ UNCHANGED <<dest, server, up_kbps, down_kbps, request, hpc, path, headers,
                   clientOut, targetOut, attempts, conn, avail, eof, sends, relay,
                   now, advances, firstEnd>>

InitLauncher ==
    /\ gui \in {InitGui(b) : b \in Builds}
    /\ up_kbps = RateDen
    /\ down_kbps = RateDen
    /\ request = Req(FALSE, <<>>, <<>>, FALSE, 0)
    /\ hpc = "start"
    /\ path = "none"
    /\ headers = <<>>
    /\ clientOut = <<>>
    /\ targetOut = <<>>
    /\ attempts = 0
    /\ conn = [c \in {"client", "target"} |-> IF c = "client" THEN "open" ELSE "none"]
    /\ avail = [d \in Dir |-> 0]
    /\ eof = [d \in Dir |-> FALSE]
    /\ sends = [d \in Dir |-> 0]
    /\ relay = [d \in Dir |-> NoRelay]
    /\ now = 0
    /\ advances = 0
    /\ firstEnd = [who |-> "none", why |-> "", at |-> 0]
    /\ server = Listening
    /\ dest = NoDest

NextLauncher ==
    \/ StartProxy
    \/ StopProxy
    \/ LauncherExits
    \/ ForeignBinds
    \/ PortReleased

LauncherSpec == InitLauncher /\ [][NextLauncher]_vars

(***************************************************************************)
(* Properties                                                              *)
(***************************************************************************)
Started(d) == relay[d].pc \notin {"none", "init"}

\* C1: with a positive rate the bucket of a relay always satisfies
\* 0 <= tokens <= capacity, capacity being 2 x bytes_per_second, after every
\* refill-and-cap and after every debit, whatever time elapsed
C1_TokensWithinCapacity ==
    \A d \in Dir :
        (Started(d) /\ Rate(d) > 0) =>
            /\ 0 <= relay[d].tokens
            /\ relay[d].tokens <= 2 * bytes_per_second(Rate(d)) * TicksPerSec

\* a relay that has debited a chunk, was then refilled over an idle gap and
\* capped (uncapped, it would hold more than the capacity), and stands at
\* exactly the capacity
C1_Witness ==
    \E d \in Dir :
        LET R == bytes_per_second(Rate(d))
            debited == relay[d].written - relay[d].chunk
        IN /\ Rate(d) > 0
           /\ relay[d].pc = "drain"
           /\ debited > 0
           /\ relay[d].tokens = 2 * R * TicksPerSec
           /\ R * TicksPerSec + R * (now - relay[d].start)
                  - debited * TokenDen > 2 * R * TicksPerSec

\* C2: T seconds after it started a relay of rate R bytes/s has written at
\* most R + R x T bytes; at 8 kbps 5000 bytes are not written before 4 s
C2_WrittenWithinBudget ==
    \A d \in Dir :
        (Started(d) /\ Rate(d) > 0) =>
            LET R == bytes_per_second(Rate(d))
                T == now - relay[d].start
            IN /\ relay[d].written * TokenDen <= R * TicksPerSec + R * T
               /\ (Rate(d) = 8 * RateDen /\ relay[d].written >= 5000)
                      => T >= 4 * TicksPerSec

\* the relay at 8 kbps has written 5000 bytes of a burst
C2_Witness ==
    /\ up_kbps = 8 * RateDen
    /\ relay["up"].written >= 5000
    /\ relay["up"].consumed >= 5000

\* C3: a relay whose rate is 0 or negative never reads, never writes, and
\* ends in its first step with its sink closed
C3_RefusedRelay ==
    \A d \in Dir :
        Rate(d) <= 0 =>
            /\ relay[d].consumed = 0
            /\ relay[d].written = 0
            /\ relay[d].pc \in {"none", "init", "done", "raised"}
            /\ relay[d].pc \in {"done", "raised"} => IsClosed(conn[Sink(d)])

\* a refused relay that returned after closing its sink itself
C3_Witness ==
    \E d \in Dir :
        /\ Rate(d) <= 0
        /\ relay[d].pc = "done"
        /\ conn[Sink(d)] = "closed"
        /\ hpc = "wait"

\* C4: with an upload limit of 0 or less no byte that came from the client
\* is ever written to the target, on the CONNECT and on the plain path
C4_NoClientByteReachesTarget ==
    up_kbps <= 0 => (relay["up"].written = 0 /\ targetOut = <<>>)

ConnectFailed == attempts >= 1 /\ conn["target"] = "none"

NoRelays == \A d \in Dir : relay[d].pc = "none"

HandlerEnded == hpc \in {"done", "raised"}

\* C5: a CONNECT whose target cannot be reached gets exactly one status
\* line, the 502, no relay is started and the client connection is closed
C5_UnreachableTunnelGetsOnly502 ==
    (path = "tunnel" /\ ConnectFailed) =>
        /\ NoRelays
        /\ HandlerEnded => (clientOut = <<"502">> /\ IsClosed(conn["client"]))

\* C6: on the CONNECT path the 200 line is written only after the target
\* connection was opened, and the relays are started only after the 200 line
C6_TunnelOrder ==
    path = "tunnel" =>
        /\ clientOut # <<>> => (Head(clientOut) = "200" /\ conn["target"] # "none")
        /\ ~NoRelays => (clientOut = <<"200">> /\ conn["target"] # "none")

\* the request is a readable non-CONNECT request with at least two tokens
PlainRequest ==
    /\ request.readable
    /\ Len(Parts(request)) >= 2
    /\ Method(request) # CONNECT

\* C7: a non-CONNECT request whose header block has no line beginning with
\* "Host:" in any letter case gets exactly one status line, the 400; no
\* outbound connection is attempted and the client connection is closed
C7_NoHostGets400 ==
    (PlainRequest /\ HostLines(Captured(request)) = {}) =>
        /\ attempts = 0
        /\ conn["target"] = "none"
        /\ NoRelays
        /\ targetOut = <<>>
        /\ hpc # "start" => clientOut = <<"400">>
        /\ hpc \in {"start", "drain400", "done", "raised"}
        /\ HandlerEnded => IsClosed(conn["client"])

\* the 400 was drained and the handler closed the client writer itself
C7_Witness ==
    /\ PlainRequest
    /\ HostLines(Captured(request)) = {}
    /\ clientOut = <<"400">>
    /\ hpc = "done"
    /\ conn["client"] = "closed"

\* C8: at most one outbound connection attempt per accepted connection; when
\* it fails on the plain path the client gets exactly one status line, the
\* 502, no relay is started and the client connection is closed
C8_NoRetryAnd502 ==
    /\ attempts <= 1
    /\ (path = "forward" /\ ConnectFailed) =>
           /\ NoRelays
           /\ targetOut = <<>>
           /\ clientOut = <<"502">>
           /\ hpc \in {"drain502", "done", "raised"}
           /\ HandlerEnded => IsClosed(conn["client"])

\* the one attempt of a plain request failed, the 502 was drained and the
\* handler closed the client writer itself
C8_Witness ==
    /\ path = "forward"
    /\ ConnectFailed
    /\ attempts = 1
    /\ clientOut = <<"502">>
    /\ hpc = "done"
    /\ conn["client"] = "closed"

(***************************************************************************)
(* FairSpec: the event loop runs what is ready.  A task that was created,  *)
(* resumed or cancelled takes its step, and the handler resumes once       *)
(* asyncio.wait has a finished task.                                       *)
(***************************************************************************)
FairSpec ==
    /\ Spec
    /\ WF_vars(Teardown)
    /\ \A d \in Dir : WF_vars(RelayRefuse(d))
    /\ \A d \in Dir : WF_vars(RelayStart(d))
    /\ \A d \in Dir : WF_vars(RelayGrant(d))
    /\ \A d \in Dir : WF_vars(RelayCancelled(d))

BothClosed == IsClosed(conn["client"]) /\ IsClosed(conn["target"])

OneRelayEnded == hpc = "wait" /\ \E d \in Dir : Terminated(relay[d])

TornDown ==
    /\ hpc = "done"
    /\ BothClosed
    /\ \A d \in Dir : Terminated(relay[d])

\* C9: once either relay has finished, for whatever reason, the other relay
\* is cancelled and both streams are closed; a session in the relaying phase
\* one of whose relays has ended eventually reaches that state
C9_TeardownAfterFirstEnd ==
    /\ []((hpc = "done" /\ ~NoRelays) =>
             /\ BothClosed
             /\ \A d \in Dir : Terminated(relay[d]) \/ relay[d].cancel)
    /\ (OneRelayEnded ~> TornDown)

\* a session torn down after one relay ended, the other relay cancelled
C9_Witness ==
    /\ TornDown
    /\ \E d \in Dir : /\ relay[d].pc = "done"
                      /\ relay[Other(d)].pc = "cancelled"

DownEofFirst == firstEnd.who = "down" /\ firstEnd.why = "eof"

\* C10: when the download relay reads EOF first, the upload relay is
\* cancelled no later than one back-off interval afterwards, writes nothing
\* to the target once it has been cancelled, and the client socket is closed
C10_UploadCancelledAfterDownEof ==
    /\ [](DownEofFirst =>
             /\ ~Terminated(relay["up"]) => now - firstEnd.at <= SleepTicks
             /\ hpc = "done" =>
                    /\ IsClosed(conn["client"])
                    /\ relay["up"].cancel \/ Terminated(relay["up"]))
    /\ [][(DownEofFirst /\ hpc = "done")
              => relay'["up"].written = relay["up"].written]_vars

\* the download relay read EOF first and the upload relay, which had been
\* writing and was in its back-off sleep, ended cancelled
C10_Witness ==
    /\ DownEofFirst
    /\ relay["up"].pc = "cancelled"
    /\ relay["up"].written > 0
    /\ relay["up"].wake > 0
    /\ conn["client"] = "closed"

\* the position in the source stream of the first byte of the current buffer
BufferStart(r) == r.consumed - r.len

\* C11: within one direction the bytes written to the sink are, at every
\* moment, a prefix of the bytes read from the source (each write carries
\* the bytes that follow the last byte written), and the next read is issued
\* only after the whole current buffer has been written
C11_OrderedNoLossNoDup ==
    /\ [](\A d \in Dir :
             /\ relay[d].written = BufferStart(relay[d]) + relay[d].idx + relay[d].chunk
             /\ relay[d].written <= relay[d].consumed
             /\ relay[d].pc = "read" => relay[d].written = relay[d].consumed)
    /\ [][\A d \in Dir :
             relay'[d].consumed # relay[d].consumed
                 => relay[d].written = relay[d].consumed]_vars

\* a relay that wrote a first buffer in several chunks, read a second one
\* and is writing it
C11_Witness ==
    \E d \in Dir :
        /\ relay[d].pc = "drain"
        /\ BufferStart(relay[d]) > 0
        /\ relay[d].idx > 0
        /\ relay[d].chunk > 0

\* C12: a relay task never ends by raising anything but its cancellation,
\* whatever its rate: EOF ends it normally, a reset during a drain ends it
\* silently, any other failure is swallowed
C12_RelayNeverRaises ==
    \A d \in Dir :
        /\ relay[d].pc # "raised"
        /\ relay[d].pc = "done" => relay[d].why \in {"eof", "reset", "error", "refused"}

\* what a relay has done so far: bytes read, bytes written, its bucket and
\* its position in the current buffer
Progress(r) == <<r.consumed, r.written, r.tokens, r.last, r.idx>>

\* C13: a relay cancelled while suspended in the back-off sleep, in a read
\* or in a drain ends in the cancelled state, and from its cancellation on it
\* reads nothing, writes nothing and debits nothing
C13_CancelNeverSwallowed ==
    /\ [](\A d \in Dir :
             relay[d].cancel =>
                 relay[d].pc \in {"read", "drain", "sleep", "cancelled"})
    /\ [][\A d \in Dir :
             relay[d].cancel =>
                 /\ relay'[d].cancel
                 /\ Progress(relay'[d]) = Progress(relay[d])
                 /\ relay'[d].pc \in {relay[d].pc, "cancelled"}]_vars

\* a relay that was cancelled while the drain of a chunk was pending
C13_Witness ==
    \E d \in Dir :
        /\ relay[d].pc = "cancelled"
        /\ relay[d].chunk > 0
        /\ relay[Other(d)].pc = "done"
        /\ hpc = "done"

\* C14: when the first line cannot be read, or splits into fewer than two
\* tokens, the proxy closes the client connection and stops: nothing is
\* written to the client, no outbound connection is attempted and no relay
\* is started
C14_UnreadableOrMalformedJustCloses ==
    (~request.readable \/ Len(Parts(request)) < 2) =>
        /\ clientOut = <<>>
        /\ targetOut = <<>>
        /\ attempts = 0
        /\ conn["target"] = "none"
        /\ NoRelays
        /\ hpc \in {"start", "done"}
        /\ hpc = "done" => conn["client"] = "closed"

\* a request line without any token was read, with the header line after it,
\* and the handler has closed the client writer
C14_Witness ==
    /\ request.readable
    /\ Parts(request) = <<>>
    /\ Len(headers) = 3
    /\ hpc = "done"
    /\ conn["client"] = "closed"

\* the bucket of a relay: the locals tokens and last of its coroutine
BucketOf(r) == <<r.tokens, r.last>>

CompleteBlock(req) == <<req.line>> \o req.hdrs \o << <<>> >>

\* C16: on the plain path with a reachable origin the first thing written to
\* the origin is the header block, verbatim and once: the request line and
\* every header line including the blank line that ends them, before any
\* relayed byte
C16_HeaderBlockForwardedComplete ==
    (path = "forward" /\ conn["target"] # "none") =>
        /\ targetOut = <<CompleteBlock(request)>>
        /\ hpc = "drainhdr" => NoRelays

\* every bind that failed so far failed because the address was in use
PortBusy ==
    /\ server.errs # <<>>
    /\ \A i \in 1..Len(server.errs) : server.errs[i] \in AddressInUse

\* C17: when the bind fails because the address is in use, whatever number
\* the platform gives that error, start_server binds once more after the
\* delay, and when that fails too it returns without raising; it never
\* binds more than twice
C17_BusyPortRetriedOnce ==
    /\ server.binds <= 2
    /\ PortBusy =>
           /\ server.pc # "raised"
           /\ Len(server.errs) = 1 =>
                  server.pc \in {"retrysleep", "bind", "serving", "closed"}
           /\ Len(server.errs) = 2 => server.pc = "returned"

\* C18: for every rate above 0 the back-off loop terminates: the relay cannot
\* spin forever with an affordable amount of zero, because every back-off
\* over which time has passed leaves the bucket with more tokens than before,
\* until they afford a byte
C18_BackoffTerminates ==
    [][\A d \in Dir :
          (/\ Rate(d) > 0
           /\ relay[d].pc = "flush"
           /\ relay'[d].pc = "sleep"
           /\ now > relay[d].last)
              => relay'[d].tokens > relay[d].tokens]_vars

\* C19: every write of a relay has length floor(min(tokens, 16384, bytes of
\* the buffer still unsent)), tokens being the count after refill and cap:
\* at least 1 byte, never more than the tokens, the 16 KiB ceiling or the
\* unsent bytes, and the largest such length; when that length is 0 nothing
\* is written and nothing is debited
C19_WriteLength ==
    /\ [](\A d \in Dir :
             LET r == relay[d]
                 unsent == r.len - r.idx
             IN /\ r.pc = "drain" =>
                       /\ r.chunk >= 1
                       /\ r.chunk * TokenDen <= r.tokens
                       /\ r.chunk <= 16384
                       /\ r.chunk <= unsent
                       /\ \/ (r.chunk + 1) * TokenDen > r.tokens
                          \/ r.chunk = 16384
                          \/ r.chunk = unsent
                /\ r.pc = "sleep" =>
                       /\ r.chunk = 0
                       /\ unsent > 0
                       /\ r.tokens < TokenDen)
    /\ [][\A d \in Dir :
             (relay[d].pc = "flush" /\ relay'[d].pc = "sleep") =>
                 /\ relay'[d].written = relay[d].written
                 /\ relay'[d].idx = relay[d].idx
                 /\ relay'[d].tokens >= relay[d].tokens]_vars

\* a write cut short by the tokens, which were not a whole number of bytes
C19_Witness ==
    \E d \in Dir :
        /\ relay[d].pc = "drain"
        /\ relay[d].chunk < relay[d].len - relay[d].idx
        /\ relay[d].tokens % TokenDen # 0
        /\ relay[d].chunk >= 1

\* C20: the bucket of a relay starts with tokens = rate_kbps x 1000 / 8,
\* one second of allowance, under a ceiling of twice that; so what a fresh
\* relay can write before any time has passed is one second's worth of bytes
\* (1000 bytes at 8 kbps), not the ceiling
C20_InitialAllowance ==
    \A d \in Dir :
        (Started(d) /\ Rate(d) > 0) =>
            LET r == relay[d]
                second == (Rate(d) * 1000 * TokenDen) \div (8 * RateDen)
            IN /\ (r.pc = "read" /\ r.consumed = 0) => r.tokens = second
               /\ r.tokens <= 2 * second
               /\ now = r.start =>
                      /\ r.written * TokenDen <= second
                      /\ (Rate(d) = 8 * RateDen /\ r.pc = "sleep")
                             => r.written = 1000

\* a relay at 8 kbps that wrote its first 1000 bytes at once and now waits
C20_Witness ==
    /\ up_kbps = 8 * RateDen
    /\ now = relay["up"].start
    /\ relay["up"].pc = "sleep"
    /\ relay["up"].written = 1000
    /\ relay["up"].len - relay["up"].idx > 1000

\* C21: a relay drains after every write before it consumes more tokens: a
\* write is issued only when no earlier write awaits its drain, tokens are
\* debited and the offset advanced only when the drain of a chunk completes
\* and by that chunk, and a reset during the drain ends the relay with that
\* chunk not debited
C21_DrainBeforeDebit ==
    [][\A d \in Dir :
          LET r == relay[d]
              s == relay'[d]
          IN /\ s.written > r.written =>
                    /\ r.pc = "flush" /\ r.chunk = 0
                    /\ s.pc = "drain" /\ s.chunk = s.written - r.written
                    /\ s.idx = r.idx
             /\ s.pc = "drain" => s.tokens >= r.tokens
             /\ (s.tokens < r.tokens \/ s.idx # r.idx) =>
                    /\ r.pc = "drain" /\ conn[Sink(d)] = "open"
                    /\ s.tokens = r.tokens - r.chunk * TokenDen
                    /\ s.idx \in {r.idx + r.chunk, 0}
             /\ (r.pc = "drain" /\ s.pc = "done") =>
                    /\ s.tokens = r.tokens
                    /\ s.idx = r.idx]_vars

\* a relay whose first write was drained and debited and whose second write
\* met a reset: it ended with the second chunk not debited
C21_Witness ==
    \E d \in Dir :
        /\ relay[d].pc = "done"
        /\ relay[d].why = "reset"
        /\ relay[d].chunk > 0
        /\ relay[d].idx > 0
        /\ relay[d].tokens >= relay[d].chunk * TokenDen

\* the word CONNECT in any mix of upper and lower case
ConnectAnyCase(tok) ==
    /\ Len(tok) = 7
    /\ \A i \in 1..7 :
           tok[i] \in {CONNECT[i], <<"c","o","n","n","e","c","t">>[i]}

\* the handler has classified a request line of two tokens or more
Classified ==
    request.readable /\ Len(Parts(request)) >= 2 /\ hpc # "start"

\* C22: the method is the first blank-separated token of the request line,
\* upper-cased, and the target the second; the tunnel path is taken exactly
\* when the method is CONNECT in any letter case, the forward path otherwise
C22_MethodSelectsPath ==
    Classified =>
        /\ path = (IF ConnectAnyCase(Parts(request)[1]) THEN "tunnel" ELSE "forward")
        /\ request.line = LineConnectLower => path = "tunnel"
        /\ request.line = LineConnectBadPort => path = "tunnel"
        /\ request.line = LineConnects => path = "forward"
        /\ request.line = LineGetSpaced => path = "forward"
        /\ request.line = LineConnectLower => dest.host = <<"h">>
        /\ request.line = LineConnect443 => dest.host = <<"g">>

\* "connect h" in lower case went to the tunnel path with target h
C22_Witness ==
    /\ request.line = LineConnectLower
    /\ path = "tunnel"
    /\ dest.host = <<"h">>
    /\ attempts = 1

\* C23: a CONNECT is dialled at (host, port), host being the target's text
\* before the colon and port the integer after it; the port is 443 when the
\* target has no colon or what follows the colon is no integer
C23_TunnelDestination ==
    (path = "tunnel" /\ attempts >= 1) =>
        LET target == Parts(request)[2]
        IN /\ ~HasColon(dest.host)
           /\ StartsWith(target, dest.host)
           /\ ~HasColon(target) => dest = [host |-> target, port |-> 443]
           /\ HasColon(target) => target[Len(dest.host) + 1] = ":"
           /\ request.line = LineConnect => dest = [host |-> <<"h">>, port |-> 8]
           /\ request.line = LineConnectLower => dest = [host |-> <<"h">>, port |-> 443]
           /\ request.line = LineConnectBadPort => dest = [host |-> <<"h">>, port |-> 443]
           /\ request.line = LineConnectNoPort => dest = [host |-> <<"h">>, port |-> 443]
           /\ request.line = LineConnectTwoColons => dest = [host |-> <<"h">>, port |-> 443]
           /\ request.line = LineConnect443 => dest = [host |-> <<"g">>, port |-> 443]

\* a CONNECT whose port is no integer was dialled at port 443
C23_Witness ==
    /\ request.line = LineConnectBadPort
    /\ attempts = 1
    /\ dest = [host |-> <<"h">>, port |-> 443]

\* C24: a request that is no CONNECT is dialled at the destination of the
\* first line of the block that begins with "Host:" in any letter case: host
\* is the value's text before its first colon, port the integer after it,
\* and 80 when the value has no colon or what follows is no integer
C24_ForwardDestination ==
    /\ (path = "forward" /\ attempts >= 1) =>
           /\ ~HasColon(dest.host)
           /\ request.hdrs = <<HdrHost>> => dest = [host |-> <<"h">>, port |-> 8]
           /\ request.hdrs = <<HdrHostMixed>> => dest = [host |-> <<"h">>, port |-> 80]
           /\ request.hdrs = <<HdrHostBadPort>> => dest = [host |-> <<"h">>, port |-> 80]
           /\ request.hdrs = <<HdrHost8080>> => dest = [host |-> <<"g">>, port |-> 8080]
           /\ request.hdrs = <<HdrHostSpacedPort>> => dest = [host |-> <<"h">>, port |-> 8]
           /\ request.hdrs = <<HdrOther, HdrHostMixed, HdrHost>>
                  => dest = [host |-> <<"h">>, port |-> 80]
    /\ (path = "forward" /\ request.hdrs = <<HdrHostEmpty, HdrHost>>) => attempts = 0

\* of two Host lines the first one gave the destination
C24_Witness ==
    /\ request.hdrs = <<HdrOther, HdrHostMixed, HdrHost>>
    /\ path = "forward"
    /\ attempts = 1
    /\ dest = [host |-> <<"h">>, port |-> 80]

\* C25: however the handling of an accepted connection ends, the client
\* stream has been closed and so has any target stream that was opened
C25_EndedHandlerClosedBoth ==
    HandlerEnded =>
        /\ IsClosed(conn["client"])
        /\ conn["target"] # "none" => IsClosed(conn["target"])

\* C26: the classifier takes the client's bytes up to and including the
\* blank line and no more: what the client sent after that line, in the same
\* segment or later, is either still buffered for the upload relay or was
\* read by it, and what the relay wrote to the target is the head of it
C26_BodyLeftForUploadRelay ==
    (request.readable /\ request.blank /\ hpc # "start") =>
        /\ headers = Captured(request)
        /\ relay["up"].consumed + avail["up"]
               = request.body + (CHOOSE k \in SendSizes : TRUE) * sends["up"]
        /\ relay["up"].written <= relay["up"].consumed
        /\ (relay["up"].pc \in {"none", "init"}) => avail["up"] >= request.body

\* body bytes that came with the headers were written to the target by the
\* upload relay, the client having sent nothing since
C26_Witness ==
    /\ request.body = 3
    /\ request.blank
    /\ sends["up"] = 0
    /\ relay["up"].consumed = 3
    /\ relay["up"].written > 0
    /\ avail["up"] = 0

\* one of the two configured limits is 0 or negative
SomeLimitRefuses == up_kbps <= 0 \/ down_kbps <= 0

\* C27: with a limit that is 0 or negative, a session that reaches the
\* relaying phase is torn down without any peer closing: the refused relay
\* ends at its first step, no time passes in the session, the other
\* direction writes no more than its initial allowance, and the handler
\* cancels it and closes both streams
C27_RefusalTearsSessionDown ==
    /\ [](SomeLimitRefuses =>
             /\ now = 0
             /\ \A d \in Dir :
                    /\ Rate(d) <= 0 => relay[d].written = 0
                    /\ Rate(d) > 0 =>
                          relay[d].written * BpsDen <= bytes_per_second(Rate(d))
                    /\ (hpc = "done" /\ ~NoRelays /\ Rate(d) <= 0) =>
                          relay[d].why = "refused"
             /\ (hpc = "done" /\ ~NoRelays) =>
                    /\ BothClosed
                    /\ \A d \in Dir : Terminated(relay[d]) \/ relay[d].cancel)
    /\ ((SomeLimitRefuses /\ hpc = "wait") ~> TornDown)

\* no peer closed or reset anything: the download relay was refused, the
\* upload relay was waiting for bytes and was cancelled, both streams closed
C27_Witness ==
    /\ down_kbps <= 0
    /\ up_kbps > 0
    /\ TornDown
    /\ \A d \in Dir : ~eof[d] /\ sends[d] = 0
    /\ conn = [c \in {"client", "target"} |-> "closed"]
    /\ relay["down"].pc = "done" /\ relay["down"].why = "refused"
    /\ relay["up"].pc = "cancelled"
    /\ firstEnd.who = "down"

\* C28: once a Stop Proxy has completed, no proxy that a Start Proxy
\* launched is still listening, on port 8888 or on an OS-chosen port
C28_StopLeavesNoProxyListening ==
    gui.last = "stop" => gui.listening = {}

====
